---- MODULE Spec2Model ----
(***************************************************************************)
(* State-machine model of the Image-Studio editor: the edit history, the   *)
(* option handlers and the debounced recompute pipeline.                   *)
(*                                                                         *)
(* The repository holds two revisions of the Editor component:             *)
(*   V1  src/components/Editor.tsx   history : ProcessOptions[]            *)
(*       (undo / redo / reset buttons, no labels)                          *)
(*   V2  src/unnamed/part_000        history : {op, desc}[]                *)
(*       (clickable history list: jumpToHistory, labelled entries)         *)
(* The variable `version` is fixed by Init; every handler is translated    *)
(* from the revision that defines it.                                      *)
(*                                                                         *)
(* React semantics used throughout: an event handler reads the state of    *)
(* the render it was created in (its closure), its setState calls are      *)
(* queued and applied in order when the handler returns, and the effect    *)
(* with dependencies [image, options, isDragging, dragMode] is re-run      *)
(* (cleanup first) after the render when one of them changed by reference. *)
(* An action of this module is one whole event handler followed by that    *)
(* render and effect.                                                      *)
(*                                                                         *)
(* Encodings: an optional field (width?, height?, crop?) is <<>> when      *)
(* undefined and <<v>> when set; quality is kept in thousandths            *)
(* (0.9 is 900).                                                           *)
(***************************************************************************)
EXTENDS Integers, Sequences, FiniteSets, TLC

VARIABLES
  version,        \* which revision of Editor is running: V1 or V2
  image,          \* props.image: [width, height, type]
  options,        \* useState<ProcessOptions>
  optionsFresh,   \* TRUE iff `options` is not the very object stored at history[historyIndex]
  history,        \* useState history (0-based in the code, 1-based here)
  historyIndex,   \* useState historyIndex (0-based, as in the code)
  isDragging,     \* useState isDragging
  dragMode,       \* useState dragMode: "view" | "image"
  isCropping,     \* useState isCropping
  cropSelection,  \* useState cropSelection: Undefined (null) or Some(rectangle), screen pixels
  transform,      \* useState transform: [x, y, scale], scale in thousandths (1000 = 1.0)
  dragStart,      \* useRef dragStart
  startOffset,    \* useRef startOffset
  timers,         \* pending setTimeout callbacks of the processing effect
  effectTimer,    \* the timer handle the last effect's cleanup will clear
  pendingPromises,\* processImage calls in flight: [id, options]
  nextId,         \* identity of the next processImage call (issue order)
  previewUrl,     \* previewUrl / previewBlob: NoPreview or the applied result
  isProcessing,   \* useState isProcessing
  errorLogged,    \* console.error(err) has been called by the effect's catch
  messages,       \* postMessage data in flight between the page and the worker
  settled,        \* the resolve / reject calls made by worker.onmessage, in order
  lastEvent       \* what the last step's pushHistory call did, if it made one

vars == <<version, image, options, optionsFresh, history, historyIndex,
          isDragging, dragMode, isCropping, cropSelection, transform,
          dragStart, startOffset, timers, effectTimer,
          pendingPromises, nextId, previewUrl, isProcessing, errorLogged,
          messages, settled, lastEvent>>

historyVars == <<options, optionsFresh, history, historyIndex>>
toolVars == <<isDragging, dragMode, isCropping>>
viewVars == <<cropSelection, transform, dragStart, startOffset>>
pipelineVars == <<pendingPromises, nextId, previewUrl, isProcessing, errorLogged,
                  messages, settled>>

V1 == "components/Editor.tsx"
V2 == "unnamed/part_000"

------------------------------------------------------------------------------
(* Bounds of the exploration *)

MaxRequests == 2    \* processImage calls issued in one behaviour
MaxEntries == 2     \* Short: a push is explored while the history is shorter
MaxOffset == 12     \* pixels the offset and the pan are explored within
MaxPushes == 25     \* SpecPush only: length of the push-only run
MaxZoom == 5200     \* thousandths: the Zoom In button is explored up to this scale

(* Program constants *)

HistoryLimit == 20

------------------------------------------------------------------------------
(* Values *)

Undefined == <<>>
Some(v) == <<v>>
IsDefined(x) == x # <<>>

Max(a, b) == IF a >= b THEN a ELSE b
Min(a, b) == IF a <= b THEN a ELSE b
Abs(n) == IF n < 0 THEN 0 - n ELSE n

(* JavaScript numbers that a division by the zoom scale can make           *)
(* fractional (offset, crop size, width, height) are exact rationals       *)
(* <<numerator, denominator>> in lowest terms, denominator > 0; floating   *)
(* point rounding is not modelled.                                         *)

RECURSIVE GCD(_, _)
GCD(a, b) == IF b = 0 THEN a ELSE GCD(b, a % b)

Q(n, d) == LET g == GCD(Abs(n), d) IN <<n \div g, d \div g>>
QInt(n) == <<n, 1>>
QAdd(a, b) == Q(a[1] * b[2] + b[1] * a[2], a[2] * b[2])
QSub(a, b) == Q(a[1] * b[2] - b[1] * a[2], a[2] * b[2])
QLess(a, b) == a[1] * b[2] < b[1] * a[2]
QMin(a, b) == IF QLess(b, a) THEN b ELSE a
QFloor(a) == a[1] \div a[2]

getInitialOptions ==
  [ width    |-> Some(QInt(image.width)),
    height   |-> Some(QInt(image.height)),
    quality  |-> 900,
    format   |-> image.type,
    fit      |-> "cover",
    mask     |-> "none",
    rotation |-> 0,
    crop     |-> Undefined,
    offset   |-> [x |-> QInt(0), y |-> QInt(0)] ]

\* PRESETS of constants.ts, cut to the first six (the ones the V2 panel shows)
\* followed by 'thumb', a preset that sets the width only; the `options` of
\* a preset is a partial ProcessOptions, here a function on the keys it sets.
PRESETS ==
  << [id |-> "fmt-webp", label |-> "Convert to WebP",
      options |-> [format |-> "image/webp", quality |-> 800]],
     [id |-> "fmt-avif", label |-> "Convert to AVIF",
      options |-> [format |-> "image/avif", quality |-> 800]],
     [id |-> "fmt-jpg-small", label |-> "Low Quality JPG",
      options |-> [format |-> "image/jpeg", quality |-> 500]],
     [id |-> "icon-16", label |-> "Favicon 16x16",
      options |-> [width |-> Some(QInt(16)), height |-> Some(QInt(16)), fit |-> "contain", format |-> "image/png"]],
     [id |-> "icon-32", label |-> "Favicon 32x32",
      options |-> [width |-> Some(QInt(32)), height |-> Some(QInt(32)), fit |-> "contain", format |-> "image/png"]],
     [id |-> "icon-192", label |-> "PWA 192",
      options |-> [width |-> Some(QInt(192)), height |-> Some(QInt(192)), fit |-> "cover", format |-> "image/png"]],
     [id |-> "thumb", label |-> "Thumbnail 400w",
      options |-> [width |-> Some(QInt(400))]] >>

\* { ...options, ...preset.options }
Spread(o, p) == [k \in DOMAIN o |-> IF k \in DOMAIN p THEN p[k] ELSE o[k]]

\* { ...options, [key]: value }
WithKey(o, key, value) == [o EXCEPT ![key] = value]

------------------------------------------------------------------------------
(* JSON.stringify of a ProcessOptions object, as the token sequence of the *)
(* text it produces: keys in insertion order, a key whose value is         *)
(* undefined is left out, nested objects are serialised in place.          *)

Num(n) == <<ToString(n)>>
NumQ(q) == IF q[2] = 1 THEN <<ToString(q[1])>> ELSE <<ToString(q[1]), "/", ToString(q[2])>>

JSONopt(key, x) == IF IsDefined(x) THEN <<key>> \o NumQ(x[1]) ELSE <<>>

JSONcrop(c) ==
  IF IsDefined(c)
  THEN <<"crop", "{", "x">> \o Num(c[1].x) \o <<"y">> \o Num(c[1].y)
         \o <<"width">> \o NumQ(c[1].width) \o <<"height">> \o NumQ(c[1].height) \o <<"}">>
  ELSE <<>>

\* a serialisation that leaves the width out
JSONstringify_noWidth(o) ==
  <<"{">> \o JSONopt("height", o.height)
    \o <<"quality">> \o Num(o.quality) \o <<"format", o.format, "fit", o.fit, "mask", o.mask>>
    \o <<"rotation">> \o Num(o.rotation)
    \o JSONcrop(o.crop)
    \o <<"offset", "{", "x">> \o NumQ(o.offset.x) \o <<"y">> \o NumQ(o.offset.y) \o <<"}", "}">>

JSONstringify(o) ==
  <<"{">> \o JSONopt("width", o.width) \o JSONopt("height", o.height)
    \o <<"quality">> \o Num(o.quality) \o <<"format", o.format, "fit", o.fit, "mask", o.mask>>
    \o <<"rotation">> \o Num(o.rotation)
    \o JSONcrop(o.crop)
    \o <<"offset", "{", "x">> \o NumQ(o.offset.x) \o <<"y">> \o NumQ(o.offset.y) \o <<"}", "}">>

------------------------------------------------------------------------------
(* History *)

\* a history entry: V1 stores the options object, V2 stores {op, desc}
Entry(o, description) == IF version = V1 THEN o ELSE [op |-> o, desc |-> description]
EntryOptions(e) == IF version = V1 THEN e ELSE e.op

\* a slice that keeps the entries after the index
Slice_all(h, i) == h

\* history.slice(0, historyIndex + 1)
Slice(h, i) == SubSeq(h, 1, Min(i + 1, Len(h)))

\* a shift that drops the newest entry instead of the oldest
ShiftIfOver_dropNewest(h) == IF Len(h) > HistoryLimit THEN SubSeq(h, 1, HistoryLimit) ELSE h

\* a history that is never shifted
ShiftIfOver_never(h) == h

\* if (newHistory.length > 20) newHistory.shift()
ShiftIfOver(h) == IF Len(h) > HistoryLimit THEN Tail(h) ELSE h

\* a push that takes the index before the oldest entry is shifted out
pushHistory_indexBeforeShift(h, i, newOptions, description) ==
  LET appended == Append(SubSeq(h, 1, Min(i + 1, Len(h))), Entry(newOptions, description))
  IN [ history      |-> IF Len(appended) > HistoryLimit THEN Tail(appended) ELSE appended,
       historyIndex |-> Len(appended) - 1,
       options      |-> newOptions ]

\* pushHistory: the three state updates it queues
pushHistory(h, i, newOptions, description) ==
  LET newHistory == ShiftIfOver(Append(Slice(h, i), Entry(newOptions, description)))
  IN [ history      |-> newHistory,
       historyIndex |-> Len(newHistory) - 1,
       options      |-> newOptions ]

\* a guard that lets every commit push
Changed_always(h, i, o) == TRUE

\* the guard of commitOptionChange
Changed(h, i, o) == JSONstringify(EntryOptions(h[i + 1])) # JSONstringify(o)

\* what the last step did to the history: the history operation it ran ("none"
\* for a step that ran none), whether it called pushHistory, whether that call
\* dropped entries after the index, whether it shifted the oldest out
Ev(op) == [op |-> op, pushed |-> FALSE, truncated |-> FALSE, evicted |-> FALSE]
NoPush == Ev("none")
EvPush(op) ==
  [ op        |-> op,
    pushed    |-> TRUE,
    truncated |-> historyIndex + 1 < Len(history),
    evicted   |-> Len(Slice(history, historyIndex)) + 1 > HistoryLimit ]

------------------------------------------------------------------------------
(* The processing effect: useEffect(..., [image, options, isDragging,      *)
(* dragMode]).  Cleanup clears the timer of the previous run, then a new   *)
(* timer is set whose callback closes over the options of this render.     *)

\* a cleanup that leaves the previous timer pending
clearTimeout_keeps(ts, id) == ts

clearTimeout(ts, id) == {t \in ts : t.id # id}

\* the handle setTimeout returns: one no pending timer has
NewTimerId(ts) == CHOOSE n \in 1..(Cardinality(ts) + 1) : \A t \in ts : t.id # n

\* a debounce that is never shortened
Delay_always300(isInteractive) == 300

Delay(isInteractive) == IF isInteractive THEN 10 ELSE 300

\* refChanged: the handler stored a new options object
Effect(refChanged, o2, d2, m2) ==
  IF refChanged \/ d2 # isDragging \/ m2 # dragMode
  THEN LET kept == clearTimeout(timers, effectTimer)
           id == NewTimerId(kept)
           isInteractive == d2 /\ m2 = "image"
       IN /\ timers' = kept \cup {[ id |-> id, options |-> o2,
                                    isInteractive |-> isInteractive,
                                    delay |-> Delay(isInteractive) ]}
          /\ effectTimer' = id
  ELSE UNCHANGED <<timers, effectTimer>>

\* previewUrl = '' / previewBlob = null, and the result of a processImage call
NoPreview == [id |-> 0, options |-> Undefined]
Result(r) == [id |-> r.id, options |-> Some(r.options)]

\* the timer callback up to its await: setIsProcessing(true); processImage(image.blob, options)
\* processImage registers the call in pendingPromises and posts it to the worker
TimerFire ==
  \E t \in timers :
    /\ nextId <= MaxRequests
    /\ timers' = timers \ {t}
    /\ isProcessing' = TRUE
    /\ pendingPromises' = pendingPromises \cup {[id |-> nextId, options |-> t.options]}
    /\ nextId' = nextId + 1
    /\ lastEvent' = NoPush
    /\ UNCHANGED <<version, image, viewVars, historyVars, toolVars, effectTimer, previewUrl, errorLogged,
                   messages, settled>>

\* worker.onmessage with success: the promise resolves, the callback resumes:
\* setPreviewUrl(res.url); setPreviewBlob(res.blob); finally setIsProcessing(false)
Resolve ==
  \E r \in pendingPromises :
    /\ pendingPromises' = pendingPromises \ {r}
    /\ previewUrl' = Result(r)
    /\ isProcessing' = FALSE
    /\ lastEvent' = NoPush
    /\ UNCHANGED <<version, image, viewVars, historyVars, toolVars, timers, effectTimer, nextId, errorLogged,
                   messages, settled>>

\* a failure that clears the preview
Reject_clearsPreview ==
  \E r \in pendingPromises :
    /\ pendingPromises' = pendingPromises \ {r}
    /\ errorLogged' = TRUE
    /\ isProcessing' = FALSE
    /\ previewUrl' = NoPreview
    /\ lastEvent' = NoPush
    /\ UNCHANGED <<version, image, viewVars, historyVars, toolVars, timers, effectTimer, nextId,
                   messages, settled>>

\* worker.onmessage with success = false: the promise rejects:
\* catch (err) console.error(err); finally setIsProcessing(false)
Reject ==
  \E r \in pendingPromises :
    /\ pendingPromises' = pendingPromises \ {r}
    /\ errorLogged' = TRUE
    /\ isProcessing' = FALSE
    /\ lastEvent' = NoPush
    /\ UNCHANGED <<version, image, viewVars, historyVars, toolVars, timers, effectTimer, nextId, previewUrl,
                   messages, settled>>

------------------------------------------------------------------------------
(* Option and history handlers.  `ok` is the exploration budget of the     *)
(* specification that uses the action: a handler that would call           *)
(* pushHistory is explored only where `ok` holds.                          *)

\* the queued updates of pushHistory applied, in a handler that ran the history
\* operation `op` and leaves isDragging = d2 and dragMode = m2
Pushed(r, op, refChanged, d2, m2) ==
  /\ history' = r.history
  /\ historyIndex' = r.historyIndex
  /\ options' = r.options
  /\ optionsFresh' = FALSE
  /\ lastEvent' = EvPush(op)
  /\ Effect(refChanged, r.options, d2, m2)
  /\ UNCHANGED <<version, image, pipelineVars>>

\* a handler that ran the history operation `op` and changed nothing
Nothing(op) ==
  /\ lastEvent' = Ev(op)
  /\ UNCHANGED <<version, image, viewVars, historyVars, toolVars, timers, effectTimer, pipelineVars>>

\* updateOption(key, value): setOptions({ ...options, [key]: value })
updateOption(key, value, op) ==
  /\ options' = WithKey(options, key, value)
  /\ optionsFresh' = TRUE
  /\ lastEvent' = Ev(op)
  /\ Effect(TRUE, options', isDragging, dragMode)
  /\ UNCHANGED <<version, image, viewVars, history, historyIndex, toolVars, pipelineVars>>

\* commitOptionChange(desc), run by a handler of its own (onBlur, onMouseUp)
commitOptionChange(desc, ok) ==
  IF Changed(history, historyIndex, options)
  THEN /\ ok
       /\ Pushed(pushHistory(history, historyIndex, options, desc), "commitOptionChange",
                 FALSE, isDragging, dragMode)
       /\ UNCHANGED <<viewVars, toolVars>>
  ELSE Nothing("commitOptionChange")

\* onClick / onChange = { updateOption(key, value); commitOptionChange(desc) }:
\* commitOptionChange reads the options of the render, not the value just
\* queued by updateOption; when it pushes, its setOptions(options) is the last
\* queued update and wins.
updateAndCommit(key, value, desc, ok) ==
  IF Changed(history, historyIndex, options)
  THEN /\ ok
       /\ Pushed(pushHistory(history, historyIndex, options, desc), "commitOptionChange",
                 FALSE, isDragging, dragMode)
       /\ UNCHANGED <<viewVars, toolVars>>
  ELSE updateOption(key, value, "commitOptionChange")

\* the Width input: V1 stores Number(value) || undefined, V2 stores Number(value)
WidthValue(n) == IF version = V1 /\ n = 0 THEN Undefined ELSE Some(QInt(n))

ChangeWidth(ws) == \E n \in ws : updateOption("width", WidthValue(n), "none")

\* onBlur of Width / Height (desc 'Resize'), onMouseUp of Quality (desc 'Quality')
CommitEdit(descs, ok) == \E desc \in descs : commitOptionChange(desc, ok)

\* the Format select (both revisions)
SelectFormat(fs, ok) == \E f \in fs : updateAndCommit("format", f, <<"Format Change">>, ok)

\* the fit buttons (V1 only)
ClickFit(ms, ok) == version = V1 /\ \E m \in ms : updateAndCommit("fit", m, <<>>, ok)

ResetTransform == [x |-> 0, y |-> 0, scale |-> 1000]

\* V1 applyPreset(preset): pushHistory({...options, ...preset.options}); setTransform(...)
\* V2 the buttons of PRESETS.slice(0, 6):
\* setOptions({...options, ...p.options}); pushHistory({...}, `Preset: ${p.label}`)
applyPreset(ps, ok) ==
  \E k \in ps :
    /\ k \in 1..Len(PRESETS)
    /\ version = V2 => k <= 6
    /\ ok
    /\ Pushed(pushHistory(history, historyIndex, Spread(options, PRESETS[k].options),
                          <<"Preset: ", PRESETS[k].label>>), "pushHistory",
              TRUE, isDragging, dragMode)
    /\ transform' = IF version = V1 THEN ResetTransform ELSE transform
    /\ UNCHANGED <<cropSelection, dragStart, startOffset, toolVars>>

\* an undo that goes back two entries
handleUndo_twice ==
  /\ version = V1
  /\ IF historyIndex > 0
     THEN /\ historyIndex' = Max(historyIndex - 2, 0)
          /\ options' = history[historyIndex' + 1]
          /\ optionsFresh' = FALSE
          /\ lastEvent' = Ev("handleUndo")
          /\ Effect(TRUE, options', isDragging, dragMode)
          /\ UNCHANGED <<version, image, viewVars, history, toolVars, pipelineVars>>
     ELSE Nothing("handleUndo")

\* V1 handleUndo
handleUndo ==
  /\ version = V1
  /\ IF historyIndex > 0
     THEN /\ historyIndex' = historyIndex - 1
          /\ options' = history[historyIndex]
          /\ optionsFresh' = FALSE
          /\ lastEvent' = Ev("handleUndo")
          /\ Effect(TRUE, options', isDragging, dragMode)
          /\ UNCHANGED <<version, image, viewVars, history, toolVars, pipelineVars>>
     ELSE Nothing("handleUndo")

\* a redo that moves the index but stores the entry it leaves
handleRedo_stale ==
  /\ version = V1
  /\ IF historyIndex < Len(history) - 1
     THEN /\ historyIndex' = historyIndex + 1
          /\ options' = history[historyIndex + 1]
          /\ optionsFresh' = FALSE
          /\ lastEvent' = Ev("handleRedo")
          /\ Effect(TRUE, options', isDragging, dragMode)
          /\ UNCHANGED <<version, image, viewVars, history, toolVars, pipelineVars>>
     ELSE Nothing("handleRedo")

\* V1 handleRedo
handleRedo ==
  /\ version = V1
  /\ IF historyIndex < Len(history) - 1
     THEN /\ historyIndex' = historyIndex + 1
          /\ options' = history[historyIndex + 2]
          /\ optionsFresh' = FALSE
          /\ lastEvent' = Ev("handleRedo")
          /\ Effect(TRUE, options', isDragging, dragMode)
          /\ UNCHANGED <<version, image, viewVars, history, toolVars, pipelineVars>>
     ELSE Nothing("handleRedo")

\* V1 handleReset, the confirm() dialog answered by `confirmed`
handleReset(ok) ==
  /\ version = V1
  /\ \E confirmed \in BOOLEAN :
       IF confirmed
       THEN /\ ok
            /\ Pushed(pushHistory(history, historyIndex, getInitialOptions, <<>>), "handleReset",
                      TRUE, isDragging, "view")
            /\ transform' = ResetTransform
            /\ cropSelection' = Undefined
            /\ dragMode' = "view"
            /\ UNCHANGED <<dragStart, startOffset, isDragging, isCropping>>
       ELSE Nothing("none")

\* V2 jumpToHistory(index): setHistoryIndex(index); setOptions(history[index].op).
\* There is no test of index: when history[index] is undefined, reading its .op
\* throws a TypeError after setHistoryIndex(index) has been queued; the queued
\* update is applied, setOptions is never reached.
jumpToHistoryIndex(index) ==
  /\ version = V2
  /\ IF index \in 0..(Len(history) - 1)
     THEN /\ historyIndex' = index
          /\ options' = history[index + 1].op
          /\ optionsFresh' = FALSE
          /\ lastEvent' = Ev("jumpToHistory")
          /\ Effect(optionsFresh \/ index # historyIndex, options', isDragging, dragMode)
          /\ UNCHANGED <<version, image, viewVars, history, toolVars, pipelineVars>>
     ELSE /\ historyIndex' = index
          /\ lastEvent' = Ev("TypeError")
          /\ UNCHANGED <<version, image, viewVars, options, optionsFresh, history, toolVars,
                         timers, effectTimer, pipelineVars>>

\* the onClick of the i-th row of history.map((item, i) => ...)
jumpToHistory == \E index \in 0..(Len(history) - 1) : jumpToHistoryIndex(index)

------------------------------------------------------------------------------
(* Tool buttons *)

SetTool(mode, cropping, selection) ==
  /\ dragMode' = mode
  /\ isCropping' = cropping
  /\ cropSelection' = selection
  /\ lastEvent' = NoPush
  /\ Effect(FALSE, options, isDragging, mode)
  /\ UNCHANGED <<version, image, transform, dragStart, startOffset, historyVars,
                 isDragging, pipelineVars>>

\* the crop button.
\* V1: if (isCropping) { setIsCropping(false); setCropSelection(null) }
\*     else { setIsCropping(true); setDragMode('view') }
\* V2: setIsCropping(!isCropping); setDragMode('view')
ToggleCrop ==
  IF version = V1
  THEN IF isCropping
       THEN SetTool(dragMode, FALSE, Undefined)
       ELSE SetTool("view", TRUE, cropSelection)
  ELSE SetTool("view", ~isCropping, cropSelection)

\* V1 "Pan View" button: setDragMode('view'); setIsCropping(false)
ClickPan == version = V1 /\ SetTool("view", FALSE, cropSelection)

ClickMoveImage_keepsCrop == SetTool("image", isCropping, cropSelection)

\* "Move Image" button: setDragMode('image'); setIsCropping(false)
ClickMoveImage == SetTool("image", FALSE, cropSelection)

------------------------------------------------------------------------------
(* Pointer handlers on the canvas container.  `pts` are the pointer        *)
(* positions <<clientX, clientY>> explored; the container's bounding       *)
(* rectangle is taken at the origin of the client area.  The V2 handlers   *)
(* are those of viewMode = 'single'.                                       *)

ContainerRect == [left |-> 0, top |-> 0]

\* handleMouseDown
handleMouseDown(pts) ==
  \E p \in pts :
    LET x == p[1] - ContainerRect.left
        y == p[2] - ContainerRect.top
    IN /\ isDragging' = TRUE
       /\ IF isCropping
          THEN /\ dragStart' = [x |-> x, y |-> y]
               /\ cropSelection' = Some([x |-> x, y |-> y, width |-> 0, height |-> 0])
               /\ UNCHANGED startOffset
          ELSE IF dragMode = "image"
          THEN /\ dragStart' = [x |-> p[1], y |-> p[2]]
               /\ startOffset' = options.offset
               /\ UNCHANGED cropSelection
          ELSE /\ dragStart' = [x |-> p[1] - transform.x, y |-> p[2] - transform.y]
               /\ UNCHANGED <<cropSelection, startOffset>>
       /\ lastEvent' = NoPush
       /\ Effect(FALSE, options, TRUE, dragMode)
       /\ UNCHANGED <<version, image, transform, historyVars, dragMode, isCropping, pipelineVars>>

\* a move that adds the viewport delta to the offset without dividing by the zoom
MovedOffset_unscaled(start, anchor, p, scale) ==
  [x |-> QAdd(start.x, QInt(p[1] - anchor.x)), y |-> QAdd(start.y, QInt(p[2] - anchor.y))]

\* startOffset.current + (e.client - dragStart.current) / transform.scale
MovedOffset(start, anchor, p, scale) ==
  LET canvasDx == Q((p[1] - anchor.x) * 1000, scale)
      canvasDy == Q((p[2] - anchor.y) * 1000, scale)
  IN  [x |-> QAdd(start.x, canvasDx), y |-> QAdd(start.y, canvasDy)]

\* handleMouseMove; a move is explored where it leaves the offset (floored)
\* within `offsets` and the pan within `pans`
handleMouseMove(pts, offsets, pans) ==
  \E p \in pts :
    IF ~isDragging
    THEN Nothing("none")
    ELSE IF isCropping
    THEN LET currentX == p[1] - ContainerRect.left
             currentY == p[2] - ContainerRect.top
         IN /\ cropSelection' = Some([ x      |-> Min(dragStart.x, currentX),
                                       y      |-> Min(dragStart.y, currentY),
                                       width  |-> Abs(currentX - dragStart.x),
                                       height |-> Abs(currentY - dragStart.y) ])
            /\ lastEvent' = NoPush
            /\ UNCHANGED <<version, image, transform, dragStart, startOffset, historyVars,
                           toolVars, timers, effectTimer, pipelineVars>>
    ELSE IF dragMode = "image"
    THEN \* delta in viewport pixels, converted to canvas pixels by the zoom scale
         /\ options' = [options EXCEPT
                           !.offset = MovedOffset(startOffset, dragStart, p, transform.scale)]
         /\ QFloor(options'.offset.x) \in offsets /\ QFloor(options'.offset.y) \in offsets
         /\ optionsFresh' = TRUE
         /\ lastEvent' = NoPush
         /\ Effect(TRUE, options', isDragging, dragMode)
         /\ UNCHANGED <<version, image, viewVars, history, historyIndex, toolVars, pipelineVars>>
    ELSE /\ transform' = [transform EXCEPT !.x = p[1] - dragStart.x, !.y = p[2] - dragStart.y]
         /\ transform'.x \in pans /\ transform'.y \in pans
         /\ lastEvent' = NoPush
         /\ UNCHANGED <<version, image, cropSelection, dragStart, startOffset, historyVars,
                        toolVars, timers, effectTimer, pipelineVars>>

\* the crop rectangle handleMouseUp maps the selection to (source pixels)
FinalCrop(sel, t, img) ==
  LET imgX == Q((sel.x - t.x) * 1000, t.scale)
      imgY == Q((sel.y - t.y) * 1000, t.scale)
      imgW == Q(sel.width * 1000, t.scale)
      imgH == Q(sel.height * 1000, t.scale)
  IN [ x      |-> Max(0, QFloor(imgX)),
       y      |-> Max(0, QFloor(imgY)),
       width  |-> QMin(QSub(QInt(img.width), imgX), QInt(QFloor(imgW))),
       height |-> QMin(QSub(QInt(img.height), imgY), QInt(QFloor(imgH))) ]

\* the smallest selection width handleMouseUp maps: > 5 in V1, > 10 in V2
WideEnough(sel) == sel.width > (IF version = V1 THEN 5 ELSE 10)

\* V1 only: if (finalCrop.width > 0 && finalCrop.height > 0)
CropAccepted(c) == version = V1 => (QLess(QInt(0), c.width) /\ QLess(QInt(0), c.height))

\* a crop commit that leaves the crop tool on
CommitCrop_staysInCrop(finalCrop) ==
  LET newOptions == [options EXCEPT !.crop = Some(finalCrop),
                                    !.width = Some(finalCrop.width),
                                    !.height = Some(finalCrop.height)]
  IN /\ Pushed(pushHistory(history, historyIndex, newOptions, <<"Crop">>),
               "pushHistory", TRUE, FALSE, dragMode)
     /\ cropSelection' = Undefined
     /\ isDragging' = FALSE
     /\ UNCHANGED <<transform, dragStart, startOffset, dragMode, isCropping>>

\* a crop commit that sets options.crop and leaves options.width as it is
CommitCrop_keepsWidth(finalCrop) ==
  LET newOptions == [options EXCEPT !.crop = Some(finalCrop),
                                    !.height = Some(finalCrop.height)]
  IN /\ Pushed(pushHistory(history, historyIndex, newOptions, <<"Crop">>),
               "pushHistory", TRUE, FALSE, dragMode)
     /\ isCropping' = FALSE
     /\ cropSelection' = Undefined
     /\ isDragging' = FALSE
     /\ UNCHANGED <<transform, dragStart, startOffset, dragMode>>

\* the crop branch of handleMouseUp:
\* pushHistory({ ...options, crop, width: crop.width, height: crop.height });
\* setIsCropping(false); setCropSelection(null); then setIsDragging(false)
CommitCrop(finalCrop) ==
  LET newOptions == [options EXCEPT !.crop = Some(finalCrop),
                                    !.width = Some(finalCrop.width),
                                    !.height = Some(finalCrop.height)]
  IN /\ Pushed(pushHistory(history, historyIndex, newOptions, <<"Crop">>),
               "pushHistory", TRUE, FALSE, dragMode)
     /\ isCropping' = FALSE
     /\ cropSelection' = Undefined
     /\ isDragging' = FALSE
     /\ UNCHANGED <<transform, dragStart, startOffset, dragMode>>

\* handleMouseUp (onMouseUp and onMouseLeave)
handleMouseUp(ok) ==
  IF ~isDragging
  THEN Nothing("none")
  ELSE IF isCropping /\ IsDefined(cropSelection) /\ WideEnough(cropSelection[1])
  THEN LET finalCrop == FinalCrop(cropSelection[1], transform, image)
       IN IF CropAccepted(finalCrop)
          THEN ok /\ CommitCrop(finalCrop)
          ELSE /\ isDragging' = FALSE
               /\ lastEvent' = NoPush
               /\ Effect(FALSE, options, FALSE, dragMode)
               /\ UNCHANGED <<version, image, viewVars, historyVars, dragMode, isCropping,
                              pipelineVars>>
  ELSE IF dragMode = "image" /\ Changed(history, historyIndex, options)
  THEN \* commitOptionChange('Move Image') pushes
       /\ ok
       /\ Pushed(pushHistory(history, historyIndex, options, <<"Move Image">>),
                 "commitOptionChange", FALSE, FALSE, dragMode)
       /\ isDragging' = FALSE
       /\ UNCHANGED <<viewVars, dragMode, isCropping>>
  ELSE /\ isDragging' = FALSE
       /\ lastEvent' = Ev(IF dragMode = "image" THEN "commitOptionChange" ELSE "none")
       /\ Effect(FALSE, options, FALSE, dragMode)
       /\ UNCHANGED <<version, image, viewVars, historyVars, dragMode, isCropping, pipelineVars>>

------------------------------------------------------------------------------
(* Viewport: wheel zoom, the zoom buttons and Reset View.  transform.scale *)
(* is kept in thousandths (1000 is the scale 1); e.deltaY * 0.001 is then  *)
(* deltaY thousandths and the 0.1 of the buttons is 100.                   *)

MinScale == 100
MaxScale == 5000
ZoomStep == 100

\* setTransform(t): no dependency of the processing effect changes
SetTransform(t) ==
  /\ transform' = t
  /\ lastEvent' = NoPush
  /\ UNCHANGED <<version, image, cropSelection, dragStart, startOffset, historyVars, toolVars,
                 timers, effectTimer, pipelineVars>>

\* handleWheel: newScale = Math.min(Math.max(0.1, transform.scale + scaleAmount), 5)
handleWheel(deltas) ==
  \E deltaY \in deltas :
    LET scaleAmount == 0 - deltaY
        newScale == Min(Max(MinScale, transform.scale + scaleAmount), MaxScale)
    IN SetTransform([transform EXCEPT !.scale = newScale])

\* V1 "Zoom In" button: scale: t.scale + 0.1
ClickZoomIn(ok) ==
  /\ version = V1
  /\ ok
  /\ SetTransform([transform EXCEPT !.scale = transform.scale + ZoomStep])

\* V1 "Zoom Out" button: scale: Math.max(0.1, t.scale - 0.1)
ClickZoomOut ==
  /\ version = V1
  /\ SetTransform([transform EXCEPT !.scale = Max(MinScale, transform.scale - ZoomStep)])

\* a Reset View that resets the options as well
resetView_withOptions ==
  /\ transform' = ResetTransform
  /\ options' = getInitialOptions
  /\ optionsFresh' = TRUE
  /\ lastEvent' = NoPush
  /\ Effect(TRUE, options', isDragging, dragMode)
  /\ UNCHANGED <<version, image, cropSelection, dragStart, startOffset, history, historyIndex,
                 toolVars, pipelineVars>>

\* "Reset View" button: V1 resetView, V2 setTransform(t => ({...t, scale: 1, x: 0, y: 0}))
resetView == SetTransform(ResetTransform)

------------------------------------------------------------------------------
(* Initial state: the component has mounted, the processing effect has run *)
(* once and its 300 ms timer is pending.                                   *)

InitWith(versions, images) ==
  /\ version \in versions
  /\ image \in images
  /\ options = getInitialOptions
  /\ optionsFresh = TRUE
  /\ history = <<Entry(getInitialOptions, <<"Original">>)>>
  /\ historyIndex = 0
  /\ isDragging = FALSE
  /\ dragMode = "view"
  /\ isCropping = FALSE
  /\ cropSelection = Undefined
  /\ transform = ResetTransform
  /\ dragStart = [x |-> 0, y |-> 0]
  /\ startOffset = [x |-> QInt(0), y |-> QInt(0)]
  /\ timers = {[id |-> 1, options |-> getInitialOptions, isInteractive |-> FALSE,
                 delay |-> Delay(FALSE)]}
  /\ effectTimer = 1
  /\ pendingPromises = {}
  /\ nextId = 1
  /\ previewUrl = NoPreview
  /\ isProcessing = FALSE
  /\ errorLogged = FALSE
  /\ messages = {}
  /\ settled = <<>>
  /\ lastEvent = NoPush

Versions == {V1, V2}

Image4x2 == [width |-> 4, height |-> 2, type |-> "image/png"]

------------------------------------------------------------------------------
(* Spec: an editing session at the option inputs with the recompute        *)
(* pipeline: typed edits, commits and history navigation on a short        *)
(* history, the debounce timer and the offloaded processImage calls.       *)

Short == historyIndex + 2 <= MaxEntries

Init == InitWith(Versions, {Image4x2})

Next ==
  \/ ChangeWidth({2})
  \/ CommitEdit({<<"Resize">>}, Short)
  \/ SelectFormat({"image/webp"}, Short)
  \/ handleUndo
  \/ handleRedo
  \/ jumpToHistory
  \/ TimerFire
  \/ Resolve
  \/ Reject

Spec == Init /\ [][Next]_vars

\* C1: among the requests issued by the effect, once the result of a newer
\* request has been applied to the preview, the result of an older request that
\* resolves later never replaces it: the request whose result is displayed
\* never goes back to an earlier one, whatever the order of completion.
C1_StaleResultDropped == [][previewUrl'.id >= previewUrl.id]_vars

\* C2: once the options have stopped changing and every processImage call has
\* resolved (no timer pending, no call in flight, none rejected), the preview
\* displayed is the result computed from the current options.
C2_SettledPreviewIsCurrent ==
  (timers = {} /\ pendingPromises = {} /\ ~errorLogged) => previewUrl.options = Some(options)

\* C22: a failed recompute (processImage rejects, the worker having answered
\* success = false) is caught by the timer callback: the error is logged, the
\* options, the history, the index and the preview displayed are unchanged,
\* the processing flag is cleared, and later recomputes still run: the pending
\* timer and the other calls in flight are untouched and the timer can fire.
C22_FailureIsContained ==
  /\ [][Reject => /\ UNCHANGED <<options, history, historyIndex, previewUrl>>
                  /\ UNCHANGED <<timers, effectTimer>>
                  /\ pendingPromises' \subseteq pendingPromises
                  /\ errorLogged' /\ ~isProcessing']_vars
  /\ []((errorLogged /\ timers # {} /\ nextId <= MaxRequests) => ENABLED TimerFire)

\* the second call failed after the first had succeeded: the preview of the
\* first is still displayed
C22_Witness ==
  /\ errorLogged /\ ~isProcessing
  /\ nextId = 3 /\ pendingPromises = {}
  /\ previewUrl.id = 1

\* C23: at any time at most one recompute (a processImage call issued by the
\* debounced effect) is in flight.
C23_OneInFlight == Cardinality(pendingPromises) <= 1

------------------------------------------------------------------------------
(* SpecDrag: the debounce under typed edits and Move Image drags: the      *)
(* pointer moves between the positions of Points, every mouse move of a    *)
(* drag stores a new options object, and the timer of the effect may fire  *)
(* between any two of them.  A drag in 'view' mode is explored only where  *)
(* it leaves the pan unchanged.                                            *)

Points == {<<0, 0>>, <<12, 0>>}
NearBy == (0 - MaxOffset)..MaxOffset
NoPan == {0}

InitDrag == InitWith(Versions, {Image4x2})

NextDrag ==
  \/ ChangeWidth({2})
  \/ ClickMoveImage
  \/ handleMouseDown(Points)
  \/ handleMouseMove(Points, NearBy, NoPan)
  \/ handleMouseUp(Short)
  \/ TimerFire

SpecDrag == InitDrag /\ [][NextDrag]_vars

\* C3: a recompute whose debounce timer has not fired yet is canceled and
\* replaced when the options change again: at any time at most one debounce
\* timer is pending and it holds the current options, and every call of
\* processImage is passed the options current at the time of the call, never a
\* value that was replaced before its timer fired.
C3_Coalescing ==
  /\ [](Cardinality(timers) <= 1 /\ \A t \in timers : t.options = options)
  /\ [][\A r \in pendingPromises' \ pendingPromises : r.options = options]_vars

\* the first call of processImage is made with a frame of a Move Image drag:
\* the options of the mount and the frames before it were replaced unfired
C3_Witness ==
  /\ nextId = 2
  /\ isDragging /\ dragMode = "image"
  /\ \E r \in pendingPromises : r.options.offset.x = QInt(12) /\ r.options.width = Some(QInt(2))

\* the release (onMouseUp or onMouseLeave) that ends a Move Image drag
MoveImageRelease == isDragging /\ ~isDragging' /\ dragMode = "image" /\ ~isCropping

\* C19 as stated: the release of a Move Image drag pushes an entry labelled
\* 'Move Image' if and only if the options differ by value from the entry at
\* the index, and a press-and-release with no net change of offset adds no
\* entry.
C19_NoMoveNoEntry ==
  [][MoveImageRelease =>
       /\ lastEvent'.pushed <=> options # EntryOptions(history[historyIndex + 1])
       /\ options.offset = startOffset => ~lastEvent'.pushed]_vars

\* C19: the release of a Move Image drag pushes one entry, holding the current
\* options and labelled 'Move Image', if and only if the options differ by
\* value from the entry at the index; a press-and-release with no net change
\* of offset adds no entry when no other edit is pending, that is when the
\* options apart from the offset equal those of the entry at the index.
C19_MoveCommitIffChanged ==
  [][MoveImageRelease =>
       /\ lastEvent'.pushed <=> options # EntryOptions(history[historyIndex + 1])
       /\ lastEvent'.pushed =>
            /\ history' = Append(Slice(history, historyIndex),
                                 Entry(options, <<"Move Image">>))
            /\ historyIndex' = Len(history') - 1
       /\ ~lastEvent'.pushed => UNCHANGED <<history, historyIndex>>
       /\ (/\ options.offset = startOffset
           /\ [options EXCEPT !.offset = startOffset] = EntryOptions(history[historyIndex + 1]))
            => ~lastEvent'.pushed]_vars

\* a Move Image drag that moved the image has just been released and pushed
C19_Witness ==
  /\ lastEvent.op = "commitOptionChange" /\ lastEvent.pushed
  /\ dragMode = "image" /\ ~isDragging
  /\ options.offset # startOffset
  /\ EntryOptions(history[historyIndex + 1]).offset = options.offset

------------------------------------------------------------------------------
(* SpecDelay: every way the processing effect is re-run: Pan, Move Image   *)
(* and crop drags, tool buttons, typed and committed edits, a preset and   *)
(* history navigation.  The timers are scheduled and replaced; none fires. *)

InitDelay == InitWith(Versions, {Image4x2})

NextDelay ==
  \/ ToggleCrop
  \/ ClickPan
  \/ ClickMoveImage
  \/ handleMouseDown(Points)
  \/ handleMouseMove(Points, 0..MaxOffset, NoPan)
  \/ handleMouseUp(Short)
  \/ ChangeWidth({2})
  \/ CommitEdit({<<"Resize">>}, Short)
  \/ applyPreset({6}, Short)
  \/ handleUndo
  \/ jumpToHistory

SpecDelay == InitDelay /\ [][NextDelay]_vars

\* C24: each recompute is scheduled with delay 10 exactly when a pointer drag
\* is in progress in Move Image mode at scheduling time and with delay 300 in
\* every other case; the effect re-runs on every change of isDragging and
\* dragMode, so the pending timer always has the delay of the current state
\* and holds the current options.  The recompute scheduled by the release of a
\* Move Image drag uses 300 and carries the final offset.
C24_DebounceDelay ==
  /\ [](\A t \in timers :
         /\ t.delay = IF isDragging /\ dragMode = "image" /\ ~isCropping THEN 10 ELSE 300
         /\ t.options = options)
  /\ [][\A t \in timers' \ timers :
         t.delay = IF isDragging' /\ dragMode' = "image" THEN 10 ELSE 300]_vars
  /\ [][MoveImageRelease =>
         \E t \in timers' \ timers :
           t.id = effectTimer' /\ t.delay = 300 /\ t.options.offset = options.offset]_vars

\* a Move Image drag has just been released with the image moved: the frames
\* of the drag were scheduled with 10, the pending recompute with 300
C24_Witness ==
  /\ ~isDragging /\ dragMode = "image"
  /\ options.offset.x = QInt(12)
  /\ lastEvent.op = "commitOptionChange" /\ lastEvent.pushed
  /\ \E t \in timers : t.delay = 300 /\ t.options.offset.x = QInt(12)

------------------------------------------------------------------------------
(* SpecCanvas: the tool buttons and the pointer handlers (pan, Move Image, *)
(* crop selection) on a short history, without the processImage calls.     *)

InitCanvas == InitWith(Versions, {Image4x2})

NextCanvas ==
  \/ ToggleCrop
  \/ ClickPan
  \/ ClickMoveImage
  \/ handleMouseDown(Points)
  \/ handleMouseMove(Points, NearBy, 0..MaxOffset)
  \/ handleMouseUp(Short)
  \/ handleReset(Short)

SpecCanvas == InitCanvas /\ [][NextCanvas]_vars

\* C13: isCropping is never true together with dragMode = 'image', whatever
\* sequence of tool clicks, crop commits, crop cancels and resets is performed.
C13_CropExcludesMoveImage == ~(isCropping /\ dragMode = "image")

\* the crop tool has been entered from Move Image mode, which it left
C13_Witness ==
  /\ isCropping /\ dragMode = "view"
  /\ \E i \in 1..Len(history) : EntryOptions(history[i]).offset # getInitialOptions.offset

\* C14: entering Crop ends any drag in progress (isDragging becomes false) and
\* clears any previous cropSelection.
C14_EnterCropClears ==
  [][(~isCropping /\ isCropping') => (~isDragging' /\ cropSelection' = Undefined)]_vars

------------------------------------------------------------------------------
(* SpecCrop: the crop tool on a panned and zoomed view.  The pointer is    *)
(* pressed, moved and released at the corners of selections that are 0, 3, *)
(* 12 or 15 pixels wide and 0 or 11 pixels high, the view is panned        *)
(* horizontally by drags between the same points and zoomed by the wheel   *)
(* between the scales 0.1, 1 and 5, and the crop is committed on a short   *)
(* history.                                                                *)

Image16x8 == [width |-> 16, height |-> 8, type |-> "image/png"]

CropPoints == {<<0, 0>>, <<3, 11>>, <<15, 11>>}
CropPans == {0, 12}
WheelDeltas == {0 - 4900, 4900}

InitCrop == InitWith(Versions, {Image16x8})

NextCrop ==
  \/ ToggleCrop
  \/ handleMouseDown(CropPoints)
  \/ handleMouseMove(CropPoints, {0}, CropPans)
  \/ handleMouseUp(Short)
  \/ handleWheel(WheelDeltas)

SpecCrop == InitCrop /\ [][NextCrop]_vars

\* C15: from Crop, both cancelling (the crop button) and a successful commit
\* (a release that pushes the crop) lead to Pan mode: isCropping false and
\* dragMode 'view'.
C15_CropLeadsToPan ==
  [][(isCropping /\ (ToggleCrop \/ (lastEvent'.pushed /\ lastEvent'.op = "pushHistory")))
       => (~isCropping' /\ dragMode' = "view")]_vars

\* a crop has just been committed and the editor is in Pan mode
C15_Witness ==
  /\ lastEvent.pushed /\ lastEvent.op = "pushHistory"
  /\ IsDefined(options.crop)
  /\ ~isCropping /\ dragMode = "view"

\* the selection is non-degenerate: wider and higher than the thresholds of
\* both revisions on screen, and mapped to a rectangle of positive size
NonDegenerate(sel, t, img) ==
  /\ sel.width > 10 /\ sel.height > 10
  /\ QLess(QInt(0), FinalCrop(sel, t, img).width)
  /\ QLess(QInt(0), FinalCrop(sel, t, img).height)

\* C16: a pointer release in Crop with a non-degenerate mapped rectangle sets
\* options.crop to that rectangle and options.width / options.height to the
\* rectangle's, leaves the other option fields unchanged, pushes exactly one
\* history entry (labelled 'Crop' where entries carry a label), clears the
\* selection and exits to Pan.
C16_ReleaseCommitsCrop ==
  [][(/\ isDragging /\ ~isDragging'
      /\ isCropping /\ IsDefined(cropSelection)
      /\ NonDegenerate(cropSelection[1], transform, image))
       => LET c == FinalCrop(cropSelection[1], transform, image)
          IN /\ options' = [options EXCEPT !.crop = Some(c),
                                           !.width = Some(c.width),
                                           !.height = Some(c.height)]
             /\ history' = Append(Slice(history, historyIndex), Entry(options', <<"Crop">>))
             /\ historyIndex' = Len(history') - 1
             /\ cropSelection' = Undefined
             /\ ~isCropping' /\ dragMode' = "view"]_vars

\* a crop of a zoomed view has just been committed on top of the seeded entry
C16_Witness ==
  /\ lastEvent.pushed /\ lastEvent.op = "pushHistory"
  /\ Len(history) = 2 /\ historyIndex = 1
  /\ transform.scale # 1000
  /\ IsDefined(options.crop)
  /\ options.width = Some(options.crop[1].width)
  /\ cropSelection = Undefined /\ ~isCropping

\* the selection is degenerate: at most 3 pixels wide on screen, or mapped to a
\* rectangle whose width or height is not positive
Degenerate(sel, t, img) ==
  \/ sel.width <= 3
  \/ ~QLess(QInt(0), FinalCrop(sel, t, img).width)
  \/ ~QLess(QInt(0), FinalCrop(sel, t, img).height)

\* C17: a pointer release in Crop with a degenerate selection (3 px wide at
\* scale 1.0, or a mapped rectangle of non-positive width or height) discards
\* the selection, leaves options (options.crop included), the history and the
\* index unchanged, and stays in Crop.
C17_DegenerateIsNoOp ==
  [][(/\ isDragging /\ ~isDragging'
      /\ isCropping /\ IsDefined(cropSelection)
      /\ Degenerate(cropSelection[1], transform, image))
       => /\ cropSelection' = Undefined
          /\ UNCHANGED <<options, history, historyIndex>>
          /\ isCropping']_vars

\* the rectangle c lies inside the source image and has positive size
WithinSource(c, img) ==
  /\ 0 <= c.x /\ 0 <= c.y
  /\ ~QLess(QInt(img.width), QAdd(QInt(c.x), c.width))
  /\ ~QLess(QInt(img.height), QAdd(QInt(c.y), c.height))
  /\ QLess(QInt(0), c.width) /\ QLess(QInt(0), c.height)

\* C18: every committed crop rectangle satisfies 0 <= x, 0 <= y,
\* x + width <= sourceWidth, y + height <= sourceHeight, width > 0 and
\* height > 0, for every selection, pan offset and scale.
C18_CropWithinSource ==
  \A i \in 1..Len(history) :
    IsDefined(EntryOptions(history[i]).crop) =>
      WithinSource(EntryOptions(history[i]).crop[1], image)

------------------------------------------------------------------------------
(* SpecView: the viewport (Pan drags, wheel, zoom buttons, Reset View)     *)
(* next to an editing session with history navigation: a width is typed    *)
(* and committed, and the history is walked by undo, redo and the rows of  *)
(* the history panel.                                                      *)

ZoomBudget == transform.scale + ZoomStep <= MaxZoom

InitView == InitWith(Versions, {Image4x2})

NextView ==
  \/ handleMouseDown(Points)
  \/ handleMouseMove(Points, NoPan, 0..MaxOffset)
  \/ handleMouseUp(Short)
  \/ handleWheel(WheelDeltas)
  \/ ClickZoomIn(ZoomBudget)
  \/ ClickZoomOut
  \/ resetView
  \/ ChangeWidth({2})
  \/ CommitEdit({<<"Resize">>}, Short)
  \/ handleUndo
  \/ handleRedo
  \/ jumpToHistory

SpecView == InitView /\ [][NextView]_vars

\* a viewport operation: a pointer press, move or release in Pan mode, a wheel
\* zoom, a zoom button or Reset View
ViewportOperation ==
  \/ /\ ~isCropping /\ dragMode = "view"
     /\ \/ handleMouseDown(Points)
        \/ handleMouseMove(Points, NoPan, 0..MaxOffset)
        \/ handleMouseUp(TRUE)
  \/ handleWheel(WheelDeltas)
  \/ ClickZoomIn(TRUE)
  \/ ClickZoomOut
  \/ resetView

\* C20: viewport operations (Pan-mode pointer down, move and up, wheel zoom,
\* the zoom buttons, Reset View) leave the options, the history entries and
\* the history index unchanged, and undo, redo and jump never change the
\* viewport transform.
C20_ViewportFrame ==
  [][/\ ViewportOperation => UNCHANGED <<options, history, historyIndex>>
     /\ lastEvent'.op \in {"handleUndo", "handleRedo", "jumpToHistory"}
          => UNCHANGED transform]_vars

\* an undo or a jump has just restored the options of the seeded entry in a
\* view that is panned and zoomed
C20_Witness ==
  /\ lastEvent.op \in {"handleUndo", "jumpToHistory"}
  /\ Len(history) = 2 /\ historyIndex = 0 /\ options = getInitialOptions
  /\ transform.x = MaxOffset /\ transform.scale = 4000

\* C21: after any sequence of wheel zooms, Zoom In and Zoom Out clicks and view
\* resets, the viewport scale stays within [0.1, 5.0].
C21_ScaleInRange == 100 <= transform.scale /\ transform.scale <= 5000

------------------------------------------------------------------------------
(* SpecHistory: the history handlers up to and beyond the capacity of 20.  *)
(* The edits take the width between two values, so that a committed entry  *)
(* always differs from its predecessor; the pushes that do not compare     *)
(* (preset, reset) are explored while no entry of the history repeats its  *)
(* predecessor or carries a preset label.                                  *)

Image192 == [width |-> 192, height |-> 192, type |-> "image/png"]

Forced(h, i) ==
  \/ EntryOptions(h[i]) = EntryOptions(h[i - 1])
  \/ version = V2 /\ h[i].desc # <<"Resize">>

ForcedBudget == \A i \in 2..Len(history) : ~Forced(history, i)

InitHistory == InitWith(Versions, {Image192})

NextHistory ==
  \/ ChangeWidth({0, 192})
  \/ CommitEdit({<<"Resize">>}, TRUE)
  \/ ClickFit({"cover"}, TRUE)
  \/ applyPreset({6}, ForcedBudget)
  \/ handleUndo
  \/ handleRedo
  \/ handleReset(ForcedBudget)
  \/ jumpToHistory

SpecHistory == InitHistory /\ [][NextHistory]_vars

\* C4: after any sequence of pushes (option commits, presets, reset), undo,
\* redo and jump operations, the history holds at least 1 and at most 20 entries.
C4_HistoryLength == Len(history) >= 1 /\ Len(history) <= HistoryLimit

\* a push has just shifted the oldest entry out of a full history
C4_Witness == lastEvent.evicted /\ Len(history) = HistoryLimit

\* C5: after any sequence of push, undo, redo, jump and reset operations,
\* a push that evicts the oldest entry included, 0 <= historyIndex <= length - 1.
C5_IndexInRange == 0 <= historyIndex /\ historyIndex <= Len(history) - 1

\* the index right after a push that shifted the oldest entry out: the last
\* position of the full history
C5_Witness == lastEvent.evicted /\ historyIndex = HistoryLimit - 1

\* C6: a push keeps exactly the entries up to the current index (less the
\* oldest one when the capacity is exceeded), appends the new entry as the last
\* one and sets the index to it: the entries after the index are gone from the
\* history that undo, redo and jump read, and a redo right after is a no-op.
C6_PushTruncates ==
  [][lastEvent'.pushed =>
       LET kept == SubSeq(history, 1, historyIndex + 1)
           n == Len(history')
       IN /\ n >= 1
          /\ historyIndex' = n - 1
          /\ EntryOptions(history'[n]) = options'
          /\ SubSeq(history', 1, n - 1) = (IF Len(kept) = HistoryLimit THEN Tail(kept) ELSE kept)]_vars

\* a push made while the index was not at the last entry
C6_Witness == lastEvent.pushed /\ lastEvent.truncated

\* C7: undo at index 0 and redo at the last index change neither the history,
\* the index nor the options; at any other index they move the index by
\* exactly 1, set the options to the entry at the new index and leave the
\* history entries unchanged.
C7_UndoRedo ==
  [][(lastEvent'.op = "handleUndo" =>
        IF historyIndex = 0
        THEN UNCHANGED <<history, historyIndex, options>>
        ELSE /\ historyIndex' = historyIndex - 1
             /\ options' = EntryOptions(history[historyIndex' + 1])
             /\ history' = history)
     /\
     (lastEvent'.op = "handleRedo" =>
        IF historyIndex = Len(history) - 1
        THEN UNCHANGED <<history, historyIndex, options>>
        ELSE /\ historyIndex' = historyIndex + 1
             /\ options' = EntryOptions(history[historyIndex' + 1])
             /\ history' = history)]_vars

\* a redo has just moved the index forward, below the last entry
C7_Witness ==
  /\ lastEvent.op = "handleRedo"
  /\ 0 < historyIndex /\ historyIndex < Len(history) - 1
  /\ options = EntryOptions(history[historyIndex + 1])

\* C8: commitOptionChange pushes a new entry if and only if the options it is
\* given differ by value from the entry at the current index; otherwise it
\* leaves history and index unchanged; either way the entry at the index is
\* then equal to those options, so that committing them again adds nothing.
C8_CommitIffChanged ==
  [][lastEvent'.op = "commitOptionChange" =>
       LET current == EntryOptions(history[historyIndex + 1])
       IN /\ lastEvent'.pushed <=> options # current
          /\ lastEvent'.pushed =>
                /\ Len(history') = Min(historyIndex + 2, HistoryLimit)
                /\ historyIndex' = Len(history') - 1
          /\ ~lastEvent'.pushed => UNCHANGED <<history, historyIndex>>
          /\ EntryOptions(history'[historyIndex' + 1]) = options]_vars

\* a commit of changed options has just pushed, and the entry before it differs
C8_Witness ==
  /\ lastEvent.op = "commitOptionChange" /\ lastEvent.pushed
  /\ historyIndex >= 1
  /\ EntryOptions(history[historyIndex + 1]) # EntryOptions(history[historyIndex])

\* C11: a confirmed Reset replaces the entire history with a single entry:
\* afterwards the history has length 1, the index is 0 and the options are the
\* initial options (so that undo and redo are no-ops).
C11_ResetSingleEntry ==
  (lastEvent.op = "handleReset" /\ lastEvent.pushed) =>
    /\ Len(history) = 1
    /\ historyIndex = 0
    /\ options = getInitialOptions

------------------------------------------------------------------------------
(* SpecJump: jumpToHistory of the V2 editor called with any index, the     *)
(* rows of the history panel and the two indices next to them, on          *)
(* histories built by typed and committed widths.  A handler that threw    *)
(* ends the exploration of that session.                                   *)

JumpIndices == (0 - 1)..Len(history)

InitJump == InitWith({V2}, {Image4x2})

NoFailure == lastEvent.op # "TypeError"

NextJump ==
  \/ NoFailure /\ ChangeWidth({2, 3})
  \/ NoFailure /\ CommitEdit({<<"Resize">>}, Short)
  \/ NoFailure /\ \E index \in JumpIndices : jumpToHistoryIndex(index)
  \/ NoFailure /\ TimerFire

SpecJump == InitJump /\ [][NextJump]_vars

\* C12: jumpTo(index) is bounds-checked: a call with an index outside
\* 0..length-1 leaves index and options unchanged and raises no failure; a call
\* with an index inside sets the index and the options to that entry's and
\* leaves the entries unchanged.
C12_JumpBoundsChecked ==
  [][\A index \in JumpIndices :
       jumpToHistoryIndex(index) =>
         IF index \in 0..(Len(history) - 1)
         THEN /\ historyIndex' = index
              /\ options' = EntryOptions(history[index + 1])
              /\ history' = history
              /\ lastEvent'.op # "TypeError"
         ELSE /\ UNCHANGED <<historyIndex, options, history>>
              /\ lastEvent'.op # "TypeError"]_vars

------------------------------------------------------------------------------
(* SpecScenario: the undo/redo scenario of the V1 editor, from the seeded  *)
(* history: a width A is typed and committed, a width B is typed and       *)
(* committed, undo, a width C is typed and committed.  The widths are      *)
(* taken from ScenarioWidths, each one different from every width in the   *)
(* history, so that A, B, C and the original are pairwise different.       *)

ScenarioWidths == {1, 2, 3, 5, 6}

Committed == options = EntryOptions(history[historyIndex + 1])

WidthsUsed == {EntryOptions(history[i]).width : i \in 1..Len(history)}

InitScenario == InitWith({V1}, {Image4x2})

NextScenario ==
  \/ /\ Committed
     /\ Len(history) < 3 \/ historyIndex < Len(history) - 1
     /\ ChangeWidth({n \in ScenarioWidths : WidthValue(n) \notin WidthsUsed})
  \/ /\ ~Committed
     /\ CommitEdit({<<"Resize">>}, TRUE)
  \/ /\ Len(history) = 3 /\ historyIndex = 2 /\ ~lastEvent.truncated
     /\ handleUndo

SpecScenario == InitScenario /\ [][NextScenario]_vars

\* C9 as stated: after push(A); push(B); undo(); commitIfChanged(C) the
\* history equals [Original, C].
C9_OriginalThenC == lastEvent.truncated => history = <<getInitialOptions, options>>

\* C9 amended: the commit of C is made at index 1 of [Original, A, B]; it keeps
\* Original and A, discards B and appends C: the history is [Original, A, C]
\* and the index is at C.
C9_OriginalAThenC ==
  [][lastEvent'.truncated =>
       /\ Len(history) = 3 /\ historyIndex = 1
       /\ history' = <<getInitialOptions, history[2], options>>
       /\ historyIndex' = 2
       /\ \A i \in 1..Len(history') : history'[i] # history[3]]_vars

\* the commit of C has just been made
C9_Witness == lastEvent.truncated /\ Len(history) = 3 /\ historyIndex = 2 /\ Committed

------------------------------------------------------------------------------
(* SpecPush: pushes only, from the seeded history: the k-th push commits   *)
(* the width image.width + k, typed into the Width input.                  *)

WidthOf(o) == QFloor(o.width[1])

InitPush == InitWith(Versions, {Image4x2, Image192})

NextPush ==
  \/ /\ Committed
     /\ WidthOf(options) - image.width < MaxPushes
     /\ ChangeWidth({WidthOf(options) + 1})
  \/ CommitEdit({<<"Resize">>}, TRUE)

SpecPush == InitPush /\ [][NextPush]_vars

\* C10: after n pushes from the seeded history with no undo in between, for
\* every n >= 20 the history has exactly 20 entries, the most recent ones in
\* push order: its i-th entry is the (n - 20 + i)-th pushed one, the earliest
\* surviving being the (n - 19)-th (the 6th for n = 25).
C10_KeepsLast20 ==
  lastEvent.pushed =>
    LET n == WidthOf(options) - image.width
    IN n >= HistoryLimit =>
         /\ Len(history) = HistoryLimit
         /\ \A i \in 1..HistoryLimit :
              WidthOf(EntryOptions(history[i])) = image.width + n - HistoryLimit + i

\* the 25th push has been made: the earliest surviving entry is the 6th pushed
C10_Witness ==
  /\ lastEvent.pushed
  /\ WidthOf(options) - image.width = 25
  /\ WidthOf(EntryOptions(history[1])) = image.width + 6
  /\ WidthOf(EntryOptions(history[Len(history)])) = image.width + 25

------------------------------------------------------------------------------
(* processImage: the four implementations of the repository.  Worker,     *)
(* Part004 and Part005 share the dimension and draw logic; Processor (the  *)
(* module Editor imports) reads neither options.crop nor options.offset.   *)
(* Worker and Part004 encode with the jsquash codecs, Processor and        *)
(* Part005 with canvas.toBlob.  Lengths are exact rationals.               *)

Worker == "services/image.worker.ts"
Processor == "services/processor.ts"
Part004 == "unnamed/part_004"
Part005 == "unnamed/part_005"
Implementations == {Worker, Processor, Part004, Part005}

QMul(a, b) == Q(a[1] * b[1], a[2] * b[2])
QDiv(a, b) == IF b[1] < 0 THEN Q((0 - a[1]) * b[2], a[2] * (0 - b[1])) ELSE Q(a[1] * b[2], a[2] * b[1])
QMax(a, b) == IF QLess(a, b) THEN b ELSE a
\* Math.round: the nearest integer, a half goes up
MathRound(a) == QInt(QFloor(QAdd(a, Q(1, 2))))

\* a number used as a condition: undefined and 0 are falsy
Truthy(x) == IsDefined(x) /\ x[1][1] # 0

\* srcX, srcY, srcW, srcH
srcRect(impl, img, o) ==
  IF impl # Processor /\ IsDefined(o.crop)
  THEN [x |-> QInt(o.crop[1].x), y |-> QInt(o.crop[1].y),
        width |-> o.crop[1].width, height |-> o.crop[1].height]
  ELSE [x |-> QInt(0), y |-> QInt(0),
        width |-> QInt(img.width), height |-> QInt(img.height)]

\* targetWidth, targetHeight
targetSize(impl, img, o) ==
  LET src == srcRect(impl, img, o)
      targetWidth  == IF Truthy(o.width) THEN o.width[1] ELSE src.width
      targetHeight == IF Truthy(o.height) THEN o.height[1] ELSE src.height
  IN  IF Truthy(o.width) /\ ~Truthy(o.height)
      THEN [width  |-> targetWidth,
            height |-> MathRound(QMul(QDiv(src.height, src.width), o.width[1]))]
      ELSE IF ~Truthy(o.width) /\ Truthy(o.height)
      THEN [width  |-> MathRound(QMul(QDiv(src.width, src.height), o.height[1])),
            height |-> targetHeight]
      ELSE [width |-> targetWidth, height |-> targetHeight]

\* userOffsetX, userOffsetY: options.offset?.x || 0
userOffset(impl, o) ==
  IF impl # Processor /\ "offset" \in DOMAIN o
  THEN o.offset
  ELSE [x |-> QInt(0), y |-> QInt(0)]

\* the destination rectangle of the drawImage call of the fit branch
\* (a quotient by a zero targetHeight is Infinity or NaN: the test is false)
drawCover(src, target, user) ==
  IF target.height[1] # 0
     /\ QLess(QDiv(target.width, target.height), QDiv(src.width, src.height))
  THEN LET renderW == QMul(target.height, QDiv(src.width, src.height))
           offsetX == QDiv(QSub(target.width, renderW), QInt(2))
       IN  [x |-> QAdd(offsetX, user.x), y |-> QAdd(QInt(0), user.y),
            width |-> renderW, height |-> target.height]
  ELSE LET renderH == QDiv(target.width, QDiv(src.width, src.height))
           offsetY == QDiv(QSub(target.height, renderH), QInt(2))
       IN  [x |-> QAdd(QInt(0), user.x), y |-> QAdd(offsetY, user.y),
            width |-> target.width, height |-> renderH]

drawContain(src, target, user) ==
  LET scale   == QMin(QDiv(target.width, src.width), QDiv(target.height, src.height))
      renderW == QMul(src.width, scale)
      renderH == QMul(src.height, scale)
      x == QDiv(QSub(target.width, renderW), QInt(2))
      y == QDiv(QSub(target.height, renderH), QInt(2))
  IN  [x |-> QAdd(x, user.x), y |-> QAdd(y, user.y), width |-> renderW, height |-> renderH]

\* processor.ts: the whole image, placed by its centre
drawScaled(src, target, scale) ==
  [x |-> QSub(QDiv(target.width, QInt(2)), QMul(QDiv(src.width, QInt(2)), scale)),
   y |-> QSub(QDiv(target.height, QInt(2)), QMul(QDiv(src.height, QInt(2)), scale)),
   width |-> QMul(src.width, scale), height |-> QMul(src.height, scale)]

\* a fill that keeps the aspect ratio of the source
drawFill_keepsAspect(src, target, user) == drawContain(src, target, user)

drawFill(src, target, user) ==
  [x |-> user.x, y |-> user.y, width |-> target.width, height |-> target.height]

renderRect(impl, img, o) ==
  LET src    == srcRect(impl, img, o)
      target == targetSize(impl, img, o)
      user   == userOffset(impl, o)
  IN  IF o.fit = "fill" THEN drawFill(src, target, user)
      ELSE IF impl = Processor
      THEN IF o.fit = "cover"
           THEN drawScaled(src, target,
                  QMax(QDiv(target.width, src.width), QDiv(target.height, src.height)))
           ELSE drawScaled(src, target,
                  QMin(QDiv(target.width, src.width), QDiv(target.height, src.height)))
      ELSE IF o.fit = "cover" THEN drawCover(src, target, user)
      ELSE drawContain(src, target, user)

\* the encoder called and the quality it is given (normalized quality in
\* thousandths: quality / 1000 is options.quality)
encode(impl, o) ==
  IF impl \in {Worker, Part004}
  THEN CASE o.format = "image/jpeg" ->
              [codec |-> "jsquash/jpeg", quality |-> Some(Q(o.quality * 100, 1000))]
         [] o.format = "image/png" ->
              [codec |-> "jsquash/png", quality |-> Undefined]
         [] o.format = "image/webp" ->
              [codec |-> "jsquash/webp", quality |-> Some(Q(o.quality, 1000))]
         [] o.format = "image/avif" ->
              [codec |-> "jsquash/avif", quality |-> Some(Q(o.quality * 100, 1000))]
         [] OTHER ->
              [codec |-> "canvas.convertToBlob", quality |-> Some(Q(o.quality, 1000))]
  ELSE [codec |-> "canvas.toBlob", quality |-> Some(Q(o.quality, 1000))]

\* the masking step: the region of the canvas whose pixels keep their alpha
\* (destination-in with a filled arc or rect); processor.ts has an empty
\* 'square' branch
maskRegion(impl, target, o) ==
  IF o.mask = "circle"
  THEN [shape |-> "circle",
        x |-> QDiv(target.width, QInt(2)), y |-> QDiv(target.height, QInt(2)),
        size |-> QDiv(QMin(target.width, target.height), QInt(2))]
  ELSE IF o.mask = "square" /\ impl # Processor
  THEN LET size == QMin(target.width, target.height)
       IN  [shape |-> "rect",
            x |-> QDiv(QSub(target.width, size), QInt(2)),
            y |-> QDiv(QSub(target.height, size), QInt(2)),
            size |-> size]
  ELSE [shape |-> "canvas", x |-> QInt(0), y |-> QInt(0), size |-> QInt(0)]

\* what makes the call throw: a canvas without pixels.  ctx.getImageData
\* throws an IndexSizeError when a side is zero (Worker, Part004); toBlob
\* calls back with null and the call rejects with 'Conversion failed'
\* (Processor, Part005).  No other path of the function throws on its input.
failure(impl, target) ==
  IF QFloor(target.width) >= 1 /\ QFloor(target.height) >= 1
  THEN Undefined
  ELSE IF impl \in {Worker, Part004} THEN Some("IndexSizeError")
  ELSE Some("Conversion failed")

\* one call of processImage(image.blob, options): what was drawn where, on
\* which canvas, what was masked, what the encoder was given, and the error
\* the call ended with, if any
processImage(impls) ==
  \E impl \in impls :
    /\ previewUrl' = [ impl    |-> impl,
                       source  |-> srcRect(impl, image, options),
                       width   |-> targetSize(impl, image, options).width,
                       height  |-> targetSize(impl, image, options).height,
                       render  |-> renderRect(impl, image, options),
                       kept    |-> maskRegion(impl, targetSize(impl, image, options), options),
                       encoder |-> encode(impl, options),
                       error   |-> failure(impl, targetSize(impl, image, options)) ]
    /\ UNCHANGED <<version, image, historyVars, toolVars, viewVars, timers, effectTimer>>
    /\ UNCHANGED <<pendingPromises, nextId, isProcessing, errorLogged, messages, settled,
                   lastEvent>>

Processed == previewUrl # NoPreview

------------------------------------------------------------------------------
(* SpecRender: processImage as a function of its inputs.  The image, the   *)
(* crop, the requested size, the fit, the mask and the offset are drawn    *)
(* from small sets; every implementation is applied to each of them.      *)

MaxTarget == 3      \* requested widths and heights 1..MaxTarget (and 200)

Image1000x500 == [width |-> 1000, height |-> 500, type |-> "image/png"]
Image3x5 == [width |-> 3, height |-> 5, type |-> "image/png"]
RenderImages == {Image4x2, Image3x5, Image1000x500}

\* no crop, the left square of a landscape image (the top square of a
\* portrait one), and a one pixel wide column
CropsOf(img) ==
  LET side == Min(img.width, img.height)
  IN  { Undefined,
        Some([x |-> 0, y |-> 0, width |-> QInt(side), height |-> QInt(side)]),
        Some([x |-> 1, y |-> 0, width |-> QInt(1), height |-> QInt(img.height)]) }

RenderSizes == {Undefined} \cup {Some(QInt(n)) : n \in (1..MaxTarget) \cup {200}}
RenderOffsets ==
  {Undefined, Some([x |-> QInt(0), y |-> QInt(0)]), Some([x |-> QInt(5), y |-> QInt(0 - 3)])}

\* ProcessOptions, with or without the optional `offset` key
OptionsWith(o, offset) ==
  IF IsDefined(offset)
  THEN [o EXCEPT !.offset = offset[1]]
  ELSE [k \in DOMAIN o \ {"offset"} |-> o[k]]

InitOptions(opts) ==
  /\ options \in opts
  /\ optionsFresh = TRUE
  /\ history = <<Entry(getInitialOptions, <<"Original">>)>>
  /\ historyIndex = 0
  /\ isDragging = FALSE
  /\ dragMode = "view"
  /\ isCropping = FALSE
  /\ cropSelection = Undefined
  /\ transform = ResetTransform
  /\ dragStart = [x |-> 0, y |-> 0]
  /\ startOffset = [x |-> QInt(0), y |-> QInt(0)]
  /\ timers = {}
  /\ effectTimer = 0
  /\ pendingPromises = {}
  /\ nextId = 1
  /\ previewUrl = NoPreview
  /\ isProcessing = FALSE
  /\ errorLogged = FALSE
  /\ messages = {}
  /\ settled = <<>>
  /\ lastEvent = NoPush

RenderOptions ==
  { OptionsWith([getInitialOptions EXCEPT !.width = w, !.height = h, !.fit = f, !.crop = c,
                                          !.mask = m],
                off) :
      w \in RenderSizes, h \in RenderSizes, f \in {"fill", "cover", "contain"}, c \in CropsOf(image),
      m \in {"none", "circle", "square"}, off \in RenderOffsets }

InitRender ==
  /\ version = V1
  /\ image \in RenderImages
  /\ InitOptions(RenderOptions)

NextRender == processImage(Implementations)

SpecRender == InitRender /\ [][NextRender]_vars

\* the rectangle of the source that is to be rendered: options.crop, or the
\* whole image when there is no crop
SourceRectangle ==
  IF IsDefined(options.crop)
  THEN [width |-> options.crop[1].width, height |-> options.crop[1].height]
  ELSE [width |-> QInt(image.width), height |-> QInt(image.height)]

ZeroOffset ==
  "offset" \in DOMAIN options => options.offset = [x |-> QInt(0), y |-> QInt(0)]

\* the canvas of the call has a positive width and a positive height
PositiveTarget == previewUrl.width[1] > 0 /\ previewUrl.height[1] > 0

QLeq(a, b) == ~QLess(b, a)

Centered(r) ==
  /\ r.x = QDiv(QSub(previewUrl.width, r.width), QInt(2))
  /\ r.y = QDiv(QSub(previewUrl.height, r.height), QInt(2))

ScaledBy(r, scale) ==
  /\ r.width = QMul(SourceRectangle.width, scale)
  /\ r.height = QMul(SourceRectangle.height, scale)

\* C25: with fit = cover and a zero offset, for every source rectangle (the
\* crop, or the whole source) and every target size with positive
\* dimensions, the render rectangle is the source rectangle scaled
\* uniformly by max(targetW/srcW, targetH/srcH) and centered, and it covers
\* the whole target canvas; a 1000x500 source with crop 500x500 and
\* width 200 gives the target (200, 200), filled exactly.
C25_CoverCoversCanvas ==
  (Processed /\ options.fit = "cover" /\ ZeroOffset /\ PositiveTarget) =>
    LET r  == previewUrl.render
        tW == previewUrl.width
        tH == previewUrl.height
    IN  /\ ScaledBy(r, QMax(QDiv(tW, SourceRectangle.width), QDiv(tH, SourceRectangle.height)))
        /\ Centered(r)
        /\ QLeq(r.x, QInt(0)) /\ QLeq(r.y, QInt(0))
        /\ QLeq(tW, QAdd(r.x, r.width)) /\ QLeq(tH, QAdd(r.y, r.height))
        /\ (/\ image = Image1000x500
            /\ options.crop = Some([x |-> 0, y |-> 0, width |-> QInt(500), height |-> QInt(500)])
            /\ options.width = Some(QInt(200)) /\ options.height = Undefined)
           => (/\ tW = QInt(200) /\ tH = QInt(200)
               /\ r = [x |-> QInt(0), y |-> QInt(0), width |-> QInt(200), height |-> QInt(200)])

\* C26: with fit = contain and a zero offset, for every source rectangle
\* and every target size with positive dimensions, the render rectangle
\* lies entirely inside the target canvas, touches one opposite pair of
\* canvas edges with zero gap (renderW = targetW with renderX = 0, or
\* renderH = targetH with renderY = 0), and keeps the aspect ratio of the
\* source rectangle.
C26_ContainFitsInside ==
  (Processed /\ options.fit = "contain" /\ ZeroOffset /\ PositiveTarget) =>
    LET r  == previewUrl.render
        tW == previewUrl.width
        tH == previewUrl.height
    IN  /\ QLeq(QInt(0), r.x) /\ QLeq(QInt(0), r.y)
        /\ QLeq(QAdd(r.x, r.width), tW) /\ QLeq(QAdd(r.y, r.height), tH)
        /\ \/ r.width = tW /\ r.x = QInt(0)
           \/ r.height = tH /\ r.y = QInt(0)
        /\ QMul(r.width, SourceRectangle.height) = QMul(r.height, SourceRectangle.width)

\* C27: with fit = fill and a zero offset, the render rectangle is exactly
\* (0, 0, targetW, targetH) for every source rectangle, whatever its aspect
\* ratio.
C27_FillIsCanvas ==
  (Processed /\ options.fit = "fill" /\ ZeroOffset) =>
    previewUrl.render = [x |-> QInt(0), y |-> QInt(0),
                         width |-> previewUrl.width, height |-> previewUrl.height]

\* a fill of a source rectangle whose aspect ratio differs from the canvas's
C27_Witness ==
  /\ Processed /\ options.fit = "fill" /\ ZeroOffset /\ PositiveTarget
  /\ previewUrl.impl = Worker
  /\ IsDefined(options.crop)
  /\ QMul(previewUrl.width, SourceRectangle.height)
       # QMul(previewUrl.height, SourceRectangle.width)
  /\ previewUrl.render.width = QInt(200)

\* the offset the call was given: (0, 0) when the key is absent
GivenOffset == IF "offset" \in DOMAIN options THEN options.offset ELSE [x |-> QInt(0), y |-> QInt(0)]

\* C28: for every fit mode the user offset is a pure translation applied
\* after the fit placement: the render rectangle computed with the offset
\* (ox, oy) is the render rectangle computed with the offset (0, 0) shifted
\* by (ox, oy), with the same render width and height and the same target
\* canvas size; an absent offset behaves as (0, 0).
C28_OffsetIsTranslation ==
  Processed =>
    LET atZero == OptionsWith(options, Some([x |-> QInt(0), y |-> QInt(0)]))
        r0     == renderRect(previewUrl.impl, image, atZero)
        t0     == targetSize(previewUrl.impl, image, atZero)
        r      == previewUrl.render
    IN  /\ r.x = QAdd(r0.x, GivenOffset.x)
        /\ r.y = QAdd(r0.y, GivenOffset.y)
        /\ r.width = r0.width /\ r.height = r0.height
        /\ previewUrl.width = t0.width /\ previewUrl.height = t0.height

\* C29: target size resolution.  With neither width nor height set the
\* target size is the crop size, or the source size when there is no crop;
\* with exactly one of them set the other is round(srcH/srcW * width)
\* (resp. round(srcW/srcH * height)) computed over the crop rectangle when
\* there is one; with both set the target size is exactly (width, height).
C29_TargetSize ==
  Processed =>
    LET w   == options.width
        h   == options.height
        src == SourceRectangle
        tW  == previewUrl.width
        tH  == previewUrl.height
    IN  /\ (~IsDefined(w) /\ ~IsDefined(h)) => (tW = src.width /\ tH = src.height)
        /\ (IsDefined(w) /\ ~IsDefined(h)) =>
             (/\ tW = w[1]
              /\ tH[2] = 1
              /\ QLeq(QSub(QMul(QDiv(src.height, src.width), w[1]), Q(1, 2)), tH)
              /\ QLeq(tH, QAdd(QMul(QDiv(src.height, src.width), w[1]), Q(1, 2))))
        /\ (~IsDefined(w) /\ IsDefined(h)) =>
             (/\ tH = h[1]
              /\ tW[2] = 1
              /\ QLeq(QSub(QMul(QDiv(src.width, src.height), h[1]), Q(1, 2)), tW)
              /\ QLeq(tW, QAdd(QMul(QDiv(src.width, src.height), h[1]), Q(1, 2))))
        /\ (IsDefined(w) /\ IsDefined(h)) => (tW = w[1] /\ tH = h[1])

------------------------------------------------------------------------------
(* SpecEncode: the encoding step of processImage, for every format and     *)
(* every normalized quality 0.000, 0.001, ..., 1.000.                      *)

Formats == {"image/png", "image/jpeg", "image/webp", "image/avif"}
Qualities == 0..1000

EncodeOptions ==
  { [getInitialOptions EXCEPT !.format = f, !.quality = q] : f \in Formats, q \in Qualities }

InitEncode ==
  /\ version = V1
  /\ image = Image4x2
  /\ InitOptions(EncodeOptions)

SpecEncode == InitEncode /\ [][NextRender]_vars

\* C30: the encoder receives a native quality that depends only on the
\* normalized quality in [0, 1] and the format: round(quality * 100), an
\* integer in [0, 100], for JPEG and for AVIF; the unchanged value for WEBP;
\* no quality for PNG.  For quality 0.8 JPEG receives 80 and WEBP 0.8.
C30_NativeQuality ==
  Processed =>
    LET given   == previewUrl.encoder.quality
        percent == Q(options.quality, 10)
    IN  /\ options.format \in {"image/jpeg", "image/avif"} =>
             (/\ IsDefined(given)
              /\ given[1][2] = 1
              /\ QLeq(QInt(0), given[1]) /\ QLeq(given[1], QInt(100))
              /\ QLeq(QSub(percent, Q(1, 2)), given[1])
              /\ QLeq(given[1], QAdd(percent, Q(1, 2))))
        /\ options.format = "image/webp" => given = Some(Q(options.quality, 1000))
        /\ options.format = "image/png" => given = Undefined
        /\ (options.format = "image/jpeg" /\ options.quality = 800) => given = Some(QInt(80))
        /\ (options.format = "image/webp" /\ options.quality = 800) => given = Some(Q(4, 5))

------------------------------------------------------------------------------
(* SpecCaller: processImage called with options outside the ProcessOptions *)
(* contract: a format that is not an OutputFormat, a crop of width 0, a    *)
(* crop with a negative origin, a crop that extends past the source.       *)
(* width and height are both unset or both set, and fit is 'fill', so that *)
(* no quotient by the zero width is taken.                                 *)

UnknownFormat == "image/gif"

CallerCrops ==
  { Undefined,
    Some([x |-> 0, y |-> 0, width |-> QInt(0), height |-> QInt(2)]),
    Some([x |-> 0 - 1, y |-> 0, width |-> QInt(2), height |-> QInt(2)]),
    Some([x |-> 3, y |-> 0, width |-> QInt(4), height |-> QInt(2)]) }

CallerOptions ==
  { [getInitialOptions EXCEPT !.width = wh, !.height = wh, !.fit = "fill",
                              !.format = f, !.crop = c] :
      wh \in {Undefined, Some(QInt(MaxTarget))}, f \in Formats \cup {UnknownFormat},
      c \in CallerCrops }

InitCaller ==
  /\ version = V1
  /\ image = Image4x2
  /\ InitOptions(CallerOptions)

SpecCaller == InitCaller /\ [][NextRender]_vars

\* C31: a format outside {PNG, JPEG, WEBP, AVIF} that reaches the encoder
\* makes the call fail with an UnsupportedFormat error; no fallback path
\* produces encoded bytes.
C31_UnsupportedFormatFails ==
  (Processed /\ options.format \notin Formats) =>
    previewUrl.error = Some("UnsupportedFormat")

\* C32: the mask is an alpha operation applied after compositing.  With
\* mask = circle a target pixel keeps its alpha exactly when it lies within
\* the circle of radius min(targetW, targetH)/2 centered at the canvas
\* center, with mask = square exactly when it lies within the centered
\* square of side min(targetW, targetH), every other pixel becoming fully
\* transparent; with mask = none nothing changes.  The target size and the
\* render rectangle are the same for all three mask values.
C32_MaskRegion ==
  (Processed /\ PositiveTarget) =>
    LET tW   == previewUrl.width
        tH   == previewUrl.height
        side == QMin(tW, tH)
        kept == previewUrl.kept
        bare == [options EXCEPT !.mask = "none"]
    IN  /\ options.mask = "circle" =>
             kept = [shape |-> "circle", x |-> QDiv(tW, QInt(2)), y |-> QDiv(tH, QInt(2)),
                     size |-> QDiv(side, QInt(2))]
        /\ options.mask = "square" =>
             \/ kept = [shape |-> "rect", x |-> QDiv(QSub(tW, side), QInt(2)),
                        y |-> QDiv(QSub(tH, side), QInt(2)), size |-> side]
             \/ kept.shape = "canvas" /\ tW = tH
        /\ options.mask = "none" => kept.shape = "canvas"
        /\ previewUrl.render = renderRect(previewUrl.impl, image, bare)
        /\ tW = targetSize(previewUrl.impl, image, bare).width
        /\ tH = targetSize(previewUrl.impl, image, bare).height

------------------------------------------------------------------------------
\* C33: every completed user action that changes an option through a
\* one-click control (fit mode, mask, format) is pushed into history by
\* that same action: right after the click has been handled, the history
\* entry at the current index equals the new options.
C33_OneClickCommits ==
  [][(/\ lastEvent'.op = "commitOptionChange"
      /\ \/ options'.fit # options.fit
         \/ options'.mask # options.mask
         \/ options'.format # options.format)
     => EntryOptions(history'[historyIndex' + 1]) = options']_vars

------------------------------------------------------------------------------
(* SpecMove: Move Image drags on a zoomed viewport.                        *)

NextMove ==
  \/ ClickMoveImage
  \/ handleWheel(WheelDeltas)
  \/ handleMouseDown(Points)
  \/ handleMouseMove(Points, NearBy, NoPan)
  \/ handleMouseUp(Short)

SpecMove == InitDrag /\ [][NextMove]_vars

\* C34: during a MoveImage drag, after each pointer move options.offset =
\* (offset captured at pointer down) + (pointer - anchor) / viewportScale on
\* both axes; the offset depends only on the current pointer position and
\* the values captured at pointer down, not on the intermediate moves, and
\* no other option field changes during the drag.
C34_MoveOffset ==
  [][(isDragging /\ dragMode = "image" /\ ~isCropping
        /\ handleMouseMove(Points, NearBy, NoPan))
     => /\ \E p \in Points :
             /\ options'.offset.x[1] * transform.scale * startOffset.x[2]
                  = options'.offset.x[2]
                      * (startOffset.x[1] * transform.scale
                           + (p[1] - dragStart.x) * 1000 * startOffset.x[2])
             /\ options'.offset.y[1] * transform.scale * startOffset.y[2]
                  = options'.offset.y[2]
                      * (startOffset.y[1] * transform.scale
                           + (p[2] - dragStart.y) * 1000 * startOffset.y[2])
        /\ options' = [options EXCEPT !.offset = options'.offset]
        /\ UNCHANGED <<dragStart, startOffset, transform>>]_vars

\* a second move of one drag, on a viewport zoomed to 5.0, with the offset
\* captured at pointer down not zero
C34_Witness ==
  /\ isDragging /\ dragMode = "image" /\ ~isCropping
  /\ transform.scale = 5000
  /\ startOffset.x = Q(12, 5)
  /\ options.offset.x = Q(24, 5)

------------------------------------------------------------------------------
\* C35: the crop selection exists only during an active crop drag:
\* cropSelection is non-null only while the editor is in Crop mode with the
\* pointer pressed and not yet released; after pointer release, crop cancel
\* or any switch to another tool it is null, whether the crop was committed
\* or dropped.
C35_SelectionOnlyWhileDragging ==
  IsDefined(cropSelection) => (isCropping /\ isDragging)

------------------------------------------------------------------------------
\* C36: the compositor clamps the crop instead of trusting the caller: for
\* any options.crop, including one with a negative origin or one extending
\* past the source, the source rectangle that processImage actually samples
\* lies within [0, sourceWidth] x [0, sourceHeight].
C36_SourceWithinImage ==
  Processed =>
    LET src == previewUrl.source
    IN  /\ QLeq(QInt(0), src.x) /\ QLeq(QInt(0), src.y)
        /\ QLeq(QAdd(src.x, src.width), QInt(image.width))
        /\ QLeq(QAdd(src.y, src.height), QInt(image.height))

\* C37: when the effective source or crop rectangle has width 0 or
\* height 0, or the resolved target size has a non-positive dimension,
\* processImage fails with an error instead of producing a result.
C37_DegenerateFails ==
  (Processed /\ \/ previewUrl.source.width[1] = 0
                \/ previewUrl.source.height[1] = 0
                \/ previewUrl.width[1] <= 0
                \/ previewUrl.height[1] <= 0)
    => IsDefined(previewUrl.error)

------------------------------------------------------------------------------
(* SpecWorker: the worker-backed processImage and removeBackgroundAI of     *)
(* part_004 and the worker behind them, message by message.  (In Spec the  *)
(* round trip of a call is a single Resolve or Reject step.)  The worker's *)
(* handler is async: it awaits inside, so the responses to requests that   *)
(* overlap can be posted in any order, and each one succeeds or fails.     *)

\* processImage(blob, options) / removeBackgroundAI(blob):
\* id = crypto.randomUUID(); pendingPromises.set(id, ...); worker.postMessage(...)
callWorker(types) ==
  \E type \in types :
    /\ nextId <= MaxRequests
    /\ pendingPromises' = pendingPromises \cup {[id |-> nextId, type |-> type]}
    /\ messages' = messages \cup {[to |-> "worker", id |-> nextId, type |-> type]}
    /\ nextId' = nextId + 1
    /\ UNCHANGED <<version, image, historyVars, toolVars, viewVars, timers, effectTimer>>
    /\ UNCHANGED <<previewUrl, isProcessing, errorLogged, settled, lastEvent>>

\* self.onmessage in the worker: one postMessage, from the try or from the catch
selfOnMessage ==
  \E m \in messages : \E success \in BOOLEAN :
    /\ m.to = "worker"
    /\ messages' = (messages \ {m}) \cup {[to |-> "page", id |-> m.id, success |-> success]}
    /\ UNCHANGED <<version, image, historyVars, toolVars, viewVars, timers, effectTimer>>
    /\ UNCHANGED <<pendingPromises, nextId, previewUrl, isProcessing, errorLogged, settled,
                   lastEvent>>

\* a handler that settles the promise and leaves its entry in the map
workerOnMessage_keepsEntry ==
  \E m \in messages :
    /\ m.to = "page"
    /\ messages' = messages \ {m}
    /\ settled' = settled \o << [promise |-> m.id, response |-> m.id, success |-> m.success] >>
    /\ UNCHANGED <<version, image, historyVars, toolVars, viewVars, timers, effectTimer>>
    /\ UNCHANGED <<pendingPromises, nextId, previewUrl, isProcessing, errorLogged, lastEvent>>

\* worker.onmessage in the page: pending = pendingPromises.get(id);
\* if (pending) { resolve or reject; pendingPromises.delete(id) }
workerOnMessage ==
  \E m \in messages :
    /\ m.to = "page"
    /\ messages' = messages \ {m}
    /\ LET pending == {q \in pendingPromises : q.id = m.id}
       IN  /\ settled' = settled \o [i \in 1..Cardinality(pending) |->
                                      [promise  |-> (CHOOSE q \in pending : TRUE).id,
                                       response |-> m.id, success |-> m.success]]
           /\ pendingPromises' = pendingPromises \ pending
    /\ UNCHANGED <<version, image, historyVars, toolVars, viewVars, timers, effectTimer>>
    /\ UNCHANGED <<nextId, previewUrl, isProcessing, errorLogged, lastEvent>>

NextWorker ==
  \/ callWorker({"process", "remove-bg"})
  \/ selfOnMessage
  \/ workerOnMessage

SpecWorker == Init /\ [][NextWorker]_vars

\* C38: the worker posts exactly one response per request message, each
\* response settles exactly the promise registered under the same id,
\* exactly once, and removes its entry from pendingPromises; so, whatever
\* the order in which the responses arrive, no promise is settled with
\* another request's result and pendingPromises is empty when no request is
\* outstanding.
C38_OneResponseOneSettlement ==
  /\ \A id \in 1..(nextId - 1) :
       LET inFlight == {m \in messages : m.id = id}
           calls    == {i \in 1..Len(settled) : settled[i].promise = id}
       IN  /\ Cardinality(inFlight) + Cardinality(calls) = 1
           /\ (\E q \in pendingPromises : q.id = id) <=> inFlight # {}
  /\ \A i \in 1..Len(settled) : settled[i].response = settled[i].promise
  /\ messages = {} => pendingPromises = {}

\* two overlapping calls, answered in the reverse order, one of them failing
C38_Witness ==
  /\ Len(settled) = 2
  /\ settled[1].promise = 2 /\ settled[1].success
  /\ settled[2].promise = 1 /\ ~settled[2].success
  /\ pendingPromises = {}

------------------------------------------------------------------------------
\* C39: the processing indicator isProcessing is true whenever at least one
\* recompute call is still in flight, and becomes false only when none
\* remains in flight; when two calls overlap, the completion of the first
\* does not clear it.
C39_IndicatorCoversCalls == pendingPromises # {} => isProcessing

====
